---- MODULE Spec2Model ----
(***************************************************************************)
(* Model of Lab_4/Lab_4_Kendall_Davies/advanced_text_generation.py:        *)
(* the seeded sampler generate_text_with_seed and the read-evaluate loop    *)
(* interactive_generation that drives it.                                   *)
(*                                                                          *)
(* Text is a sequence of one-character strings.  A temperature is the      *)
(* exact fraction num/den.  The recurrent model is an argument of both      *)
(* functions and comes from outside the repository; it is one of two        *)
(* deterministic functions of its arguments (RnnHidden, RnnOutput).  The    *)
(* random generator is the process-wide one of the library, which the       *)
(* program never seeds: every draw, at every iteration, is a free choice    *)
(* of the environment among the ids of positive probability (Draws).        *)
(***************************************************************************)
EXTENDS Integers, Sequences, FiniteSets, TLC

VARIABLES
    \* the caller
    model,            \* the sequence model the caller passes to every call
    pc,               \* position of the caller (direct caller or session)
    seed,             \* interactive_generation: seed, after strip()
    length_arg,       \* interactive_generation: length, once parsed
    prompts,          \* the input() calls of the current loop iteration:
                      \* which prompt, and the text that was entered
    invocations,      \* requests the engine was called with in this iteration
    \* generate_text_with_seed
    epc,              \* position inside generate_text_with_seed
    seed_phrase,      \* argument
    length,           \* argument
    temperature,      \* argument
    seed_indices,     \* local
    hidden_state,     \* local
    generated_text,   \* local
    current_input,    \* local
    i,                \* loop counter of the running for loop
    \* the environment and what a caller observes
    draws,            \* what the random generator handed to the running
                      \* call, one draw per sample(), in order
    prev,             \* when a caller repeats a request: the draws of the
                      \* call before, and how it ended
    stdout,           \* what was printed since the last request started
    steps,            \* the model invocations of the running call, in order
    result,           \* value returned by the last call
    outcome           \* how the last call ended

vars == <<model, pc, seed, length_arg, prompts, invocations, epc, seed_phrase,
          length, temperature, seed_indices, hidden_state, generated_text,
          current_input, i, draws, prev, stdout, steps, result, outcome>>

session_vars == <<seed, length_arg, prompts, invocations>>

\* ------------------------------------------------------------------------
\* Bounds of the model

\* largest length a direct caller passes to generate_text_with_seed
MaxLen == 2
\* number of distinct recurrent states of the modelled sequence model
HiddenSize == 3

\* ------------------------------------------------------------------------
\* Program constants

\* default length of interactive_generation
DefaultLength == 150

\* ------------------------------------------------------------------------
\* Vocabulary: character_to_num / num_to_character, mutually inverse dicts

VocabChars == <<" ", "i", "t">>
VocabSize == Len(VocabChars)
TokenIds == 0 .. (VocabSize - 1)

\* keys of the dict character_to_num
KnownChars == {VocabChars[n] : n \in 1 .. VocabSize}

\* character_to_num[c]
character_to_num(c) == (CHOOSE n \in 1 .. VocabSize : VocabChars[n] = c) - 1

\* num_to_character[n]
num_to_character(n) == VocabChars[n + 1]

\* ------------------------------------------------------------------------
\* Values that stand for Python's None and for "no value yet"

None == -1
NoText == <<"<none>">>

\* ------------------------------------------------------------------------
\* Tokenization of the seed (lines 25-32)

\* the mutant maps an unknown character to id 0 instead of skipping it
RECURSIVE SeedIndicesUnknownAsZero(_)
SeedIndicesUnknownAsZero(phrase) ==
    IF phrase = <<>> THEN <<>>
    ELSE LET char == Head(phrase)
             rest == SeedIndicesUnknownAsZero(Tail(phrase))
         IN  IF char \in KnownChars THEN <<character_to_num(char)>> \o rest
             ELSE <<0>> \o rest

\* seed_indices after the loop over phrase
RECURSIVE SeedIndices(_)
SeedIndices(phrase) ==
    IF phrase = <<>> THEN <<>>
    ELSE LET char == Head(phrase)
             rest == SeedIndices(Tail(phrase))
         IN  IF char \in KnownChars THEN <<character_to_num(char)>> \o rest
             ELSE rest

\* the warnings printed by the loop, one per skipped character, in order
RECURSIVE SeedWarnings(_)
SeedWarnings(phrase) ==
    IF phrase = <<>> THEN <<>>
    ELSE LET char == Head(phrase)
             rest == SeedWarnings(Tail(phrase))
         IN  IF char \in KnownChars THEN rest
             ELSE <<[kind |-> "warning", text |-> <<char>>]>> \o rest

\* ------------------------------------------------------------------------
\* The sequence model: model(input_char, hidden_state) -> (output, hidden)
\* Two models are passed to the program.  "flat" leaves every next id
\* open after every input: its scores differ by ScoreUnit at most.
\* "peaked" does so after the character "i" only; after any other
\* character it is sure of the next one and scores it SureScore higher.

\* size of one logit step of the modelled sequence models
ScoreUnit == 4

\* what the peaked model adds to the score of the id it is sure of
SureScore == 4000

\* the id the peaked model is sure to follow `token`, None when it is not
\* sure: " " is followed by "t" and "t" by " "
SureNext(token) ==
    IF token = character_to_num("i") THEN None ELSE VocabSize - 1 - token

\* the recurrent state the model returns; None means a fresh sequence
RnnHidden(net, token, hidden) ==
    LET h == IF hidden = None THEN 0 ELSE hidden
    IN  (2 * h + token + 1) % HiddenSize

\* the score vector the model returns
RnnOutput(net, token, hidden) ==
    LET h == RnnHidden(net, token, hidden)
    IN  [j \in TokenIds |->
            ScoreUnit * ((h + j) % 2)
              + (IF net = "peaked" /\ j = SureNext(token) THEN SureScore
                 ELSE 0)]

\* ------------------------------------------------------------------------
\* Temperature scaling, softmax and categorical sampling (lines 63-71)

\* output / temperature, element-wise and exact: the score of id j is
\* num[j] / den.  A temperature with den = 0 is infinite and makes every
\* score 0; a temperature 0 or nan (num = 0) leaves no finite score,
\* which den = 0 in the result stands for.
Scale(output, temp) ==
    [num |-> [j \in TokenIds |->
                 IF temp.num < 0 THEN -(output[j] * temp.den)
                 ELSE output[j] * temp.den],
     den |-> IF temp.num < 0 THEN -temp.num ELSE temp.num]

\* softmax, exact, in logarithms: the probability of id j is
\* exp(num[j] / den) divided by the sum of these over all ids, where
\* num[j] / den is the score of j less the largest score.  den = 0 stands
\* for the nan entries that scores which are not finite produce.
Softmax(adjusted) ==
    LET hi == CHOOSE m \in {adjusted.num[j] : j \in TokenIds} :
                  \A j \in TokenIds : adjusted.num[j] <= m
    IN  [num |-> [j \in TokenIds |-> adjusted.num[j] - hi],
         den |-> adjusted.den]

\* Categorical raises ValueError when probs is not a distribution
InvalidDistribution(probs) == probs.den = 0

\* exp(x) is 0 in single precision for every x <= -Underflow
Underflow == 104

\* the probability of id j is not 0: exp(num[j] / den) did not underflow.
\* (Exact for the scores of the two models, which keep num[j] / den
\* above -14 or below -1000 at the temperatures explored.)
Positive(probs, j) == probs.num[j] > -(Underflow * probs.den)

\* the ids sample() can return
Support(probs) == {j \in TokenIds : Positive(probs, j)}

\* number of ids that are more probable than j, or as probable and smaller
Rank(probs, j) ==
    Cardinality({k \in TokenIds :
                    \/ probs.num[k] > probs.num[j]
                    \/ probs.num[k] = probs.num[j] /\ k < j})

\* Categorical(probs).sample(): the generator's draw u decides which id
\* of positive probability is returned; draw 0 returns the most probable
\* id, draw 1 the next one, and so on
Sample(probs, u) == CHOOSE j \in Support(probs) : Rank(probs, j) = u

\* The draws the random generator can hand to a sample() of probs.  The
\* generator is never seeded, so at every iteration the draw is any of
\* them, whatever the draws before it in this call or an earlier one:
\* sample() can return every id of positive probability, and no other.
Draws(probs) == 0 .. (Cardinality(Support(probs)) - 1)

\* ------------------------------------------------------------------------
\* generate_text_with_seed (lines 11-82)

\* the mutant keeps the recurrent state the previous call left behind
InitialHiddenStale == hidden_state

\* hidden_state = None (line 42)
InitialHidden == None

\* the mutant starts the text from the characters that were tokenized
InitialTextFiltered(sp, indices) ==
    [n \in 1 .. Len(indices) |-> num_to_character(indices[n])]

\* generated_text = seed_phrase (line 49)
InitialText(sp, indices) == sp

\* the mutant also consumes the last seed token during warm-up
WarmupStepsAll(indices) == Len(indices)

\* range(len(seed_indices) - 1) (line 53)
WarmupSteps(indices) == Len(indices) - 1

\* the mutant runs the decoding loop once more
DecodeContinuesInclusive(n, len) == n <= len

\* for _ in range(length) (line 60): n iterations are done
DecodeContinues(n, len) == n < len

\* the mutant starts decoding from the first seed token
LastSeedTokenFirst(indices) == indices[1]

\* current_input = seed_tensor[-1:] (line 58)
LastSeedToken(indices) == indices[Len(indices)]

\* what the prints of lines 45-47 write
SeedBanner(sp) ==
    << [kind |-> "seed", text |-> sp],
       [kind |-> "header", text |-> <<>>],
       [kind |-> "text", text |-> sp] >>

NoPrev == [draws |-> None]

\* where control goes when a call made from position ctx returns
ReturnTo(ctx) == IF ctx = "in_direct" THEN "returned" ELSE "seed_prompt"

\* The call generate_text_with_seed(.., sp, length=len, temperature=temp)
\* made from position ctx with `printed` already on stdout: lines 23-49.
\* With no valid token the call prints the error and returns "" at once.
EnterEngine(sp, len, temp, ctx, printed) ==
    LET indices == SeedIndices(sp)
        warned == printed \o SeedWarnings(sp)
    IN  /\ seed_phrase' = sp
        /\ length' = len
        /\ temperature' = temp
        /\ seed_indices' = indices
        /\ draws' = <<>>
        /\ steps' = <<>>
        /\ IF indices = <<>>
           THEN /\ stdout' = Append(warned, [kind |-> "error", text |-> <<>>])
                /\ result' = <<>>
                /\ outcome' = "empty_seed"
                /\ epc' = "idle"
                /\ pc' = ReturnTo(ctx)
                /\ UNCHANGED <<hidden_state, generated_text, current_input, i>>
           ELSE /\ hidden_state' = InitialHidden
                /\ stdout' = warned \o SeedBanner(sp)
                /\ generated_text' = InitialText(sp, indices)
                /\ i' = 0
                /\ epc' = "warmup"
                /\ pc' = ctx
                /\ result' = NoText
                /\ outcome' = "none"
                /\ UNCHANGED current_input

\* one iteration of the warm-up loop (lines 53-55)
WarmupStep ==
    /\ UNCHANGED model
    /\ epc = "warmup"
    /\ i < WarmupSteps(seed_indices)
    /\ LET input_char == seed_indices[i + 1]
       IN  /\ steps' = Append(steps, [token |-> input_char,
                                      hidden_in |-> hidden_state,
                                      hidden_out |-> RnnHidden(model, input_char,
                                                               hidden_state),
                                      sampled |-> None])
           /\ hidden_state' = RnnHidden(model, input_char, hidden_state)
    /\ i' = i + 1
    /\ UNCHANGED <<pc, session_vars, epc, seed_phrase, length, temperature,
                   seed_indices, generated_text, current_input, draws,
                   prev, stdout, result, outcome>>

\* the warm-up loop ends; current_input = seed_tensor[-1:] (line 58)
StartDecoding ==
    /\ UNCHANGED model
    /\ epc = "warmup"
    /\ ~(i < WarmupSteps(seed_indices))
    /\ current_input' = LastSeedToken(seed_indices)
    /\ i' = 0
    /\ epc' = "decode"
    /\ UNCHANGED <<pc, session_vars, seed_phrase, length, temperature,
                   seed_indices, hidden_state, generated_text, draws,
                   prev, stdout, steps, result, outcome>>

\* the mutant feeds the last seed token again instead of the sampled id
NextInputStuck(character_num) == seed_indices[Len(seed_indices)]

\* current_input = character_num.unsqueeze(0).unsqueeze(1) (line 79)
NextInput(character_num) == character_num

\* default temperature of interactive_generation, 0.8 (line 159)
DefaultTemperature == [num |-> 8, den |-> 10]

\* what the except clause prints (line 157)
Notice == [kind |-> "notice", text |-> <<>>]

\* the mutant keeps the length that was parsed before the error
HandlerRequestKeepsLength(sd) ==
    [seed_phrase |-> sd, length |-> length_arg,
     temperature |-> DefaultTemperature]

\* the arguments of the call in the except clause (lines 158-159)
HandlerRequest(sd) ==
    [seed_phrase |-> sd, length |-> DefaultLength,
     temperature |-> DefaultTemperature]

\* the engine is called with request req from position ctx
Invoke(req, ctx, printed) ==
    /\ EnterEngine(req.seed_phrase, req.length, req.temperature, ctx, printed)
    /\ UNCHANGED prev
    /\ invocations' = Append(invocations, req)

\* except ValueError: print the notice, call the engine with the defaults
\* (lines 156-159)
ExceptClause(printed) ==
    Invoke(HandlerRequest(seed), "in_except", Append(printed, Notice))

\* One iteration of the decoding loop (lines 60-79).  The model is stepped
\* first; with a zero or nan temperature the scaled scores give no
\* distribution and Categorical raises ValueError, which the try block of
\* interactive_generation catches (lines 156-159) and which any other caller
\* receives.
DecodeStep ==
    /\ UNCHANGED model
    /\ epc = "decode"
    /\ DecodeContinues(i, length)
    /\ LET hidden == RnnHidden(model, current_input, hidden_state)
           output == RnnOutput(model, current_input, hidden_state)
           probs == Softmax(Scale(output, temperature))
       IN  IF InvalidDistribution(probs)
           THEN IF pc = "in_try"
                THEN /\ ExceptClause(stdout)
                     /\ UNCHANGED <<seed, length_arg, prompts>>
                ELSE /\ steps' = Append(steps, [token |-> current_input,
                                                hidden_in |-> hidden_state,
                                                hidden_out |-> hidden,
                                                sampled |-> None])
                     /\ hidden_state' = hidden
                     /\ outcome' = "raised"
                     /\ result' = NoText
                     /\ epc' = "idle"
                     /\ pc' = IF pc = "in_direct" THEN "returned" ELSE "failed"
                     /\ UNCHANGED <<session_vars, seed_phrase, length,
                                    temperature, seed_indices, generated_text,
                                    current_input, i, draws, prev,
                                    stdout>>
           ELSE \E u \in Draws(probs) :
                LET character_num == Sample(probs, u)
                    char == num_to_character(character_num)
                IN  /\ steps' = Append(steps, [token |-> current_input,
                                               hidden_in |-> hidden_state,
                                               hidden_out |-> hidden,
                                               sampled |-> character_num])
                    /\ hidden_state' = hidden
                    /\ draws' = Append(draws, u)
                    /\ stdout' = Append(stdout,
                                        [kind |-> "char", text |-> <<char>>])
                    /\ generated_text' = Append(generated_text, char)
                    /\ current_input' = NextInput(character_num)
                    /\ i' = i + 1
                    /\ UNCHANGED <<pc, session_vars, epc, seed_phrase, length,
                                   temperature, seed_indices, prev, result,
                                   outcome>>

\* the decoding loop ends: print the separator, return generated_text
\* (lines 81-82)
Return ==
    /\ UNCHANGED model
    /\ epc = "decode"
    /\ ~DecodeContinues(i, length)
    /\ stdout' = Append(stdout, [kind |-> "separator", text |-> <<>>])
    /\ result' = generated_text
    /\ outcome' = "ok"
    /\ epc' = "idle"
    /\ pc' = ReturnTo(pc)
    /\ UNCHANGED <<session_vars, seed_phrase, length, temperature,
                   seed_indices, hidden_state, generated_text, current_input,
                   i, draws, prev, steps>>

\* ------------------------------------------------------------------------
\* A direct caller of generate_text_with_seed

DirectSeeds ==
    { <<>>, <<"#">>, <<"i">>, <<"i", "t">>, <<"#", "t", "q", " ", "i">> }

DirectLengths == -1 .. MaxLen

\* 0 and the temperatures of test_temperature_effects (line 90)
DirectTemperatures ==
    { [num |-> 0, den |-> 1], [num |-> 3, den |-> 10], [num |-> 5, den |-> 10],
      [num |-> 8, den |-> 10], [num |-> 1, den |-> 1],
      [num |-> 15, den |-> 10], [num |-> 2, den |-> 1] }

Call ==
    /\ UNCHANGED model
    /\ pc = "idle"
    /\ \E sp \in DirectSeeds, len \in DirectLengths,
          temp \in DirectTemperatures :
            EnterEngine(sp, len, temp, "in_direct", <<>>)
    /\ prev' = NoPrev
    /\ UNCHANGED session_vars

\* A direct caller that has received the value of a call makes the same
\* call again, as the sampling loop of analyze_generation_quality does
\* (lines 174-178).
Repeat ==
    /\ UNCHANGED model
    /\ pc = "returned"
    /\ EnterEngine(seed_phrase, length, temperature, "in_direct", <<>>)
    /\ prev' = [draws |-> draws, result |-> result, outcome |-> outcome]
    /\ UNCHANGED session_vars

\* The direct caller is done with the value it received; the frame of the
\* finished call is gone.  The last recurrent state is kept as the value a
\* stateful engine would find.
Release ==
    /\ UNCHANGED model
    /\ pc = "returned"
    /\ pc' = "idle"
    /\ seed_phrase' = NoText
    /\ length' = 0
    /\ temperature' = DefaultTemperature
    /\ seed_indices' = <<>>
    /\ generated_text' = NoText
    /\ current_input' = None
    /\ i' = 0
    /\ draws' = <<>>
    /\ prev' = NoPrev
    /\ stdout' = <<>>
    /\ steps' = <<>>
    /\ result' = NoText
    /\ outcome' = "none"
    /\ UNCHANGED <<session_vars, epc, hidden_state>>

InitEngineVars ==
    /\ epc = "idle"
    /\ seed_phrase = NoText
    /\ length = 0
    /\ temperature = DefaultTemperature
    /\ seed_indices = <<>>
    /\ hidden_state = None
    /\ generated_text = NoText
    /\ current_input = None
    /\ i = 0
    /\ draws = <<>>
    /\ prev = NoPrev
    /\ stdout = <<>>
    /\ steps = <<>>
    /\ result = NoText
    /\ outcome = "none"

InitSessionVars ==
    /\ seed = <<>>
    /\ length_arg = 0
    /\ prompts = <<>>
    /\ invocations = <<>>

\* the models a direct caller passes
DirectModels == {"flat", "peaked"}

InitEngine ==
    /\ model \in DirectModels
    /\ pc = "idle"
    /\ InitSessionVars
    /\ InitEngineVars

NextEngine ==
    \/ Call
    \/ Repeat
    \/ WarmupStep
    \/ StartDecoding
    \/ DecodeStep
    \/ Return
    \/ Release

SpecEngine == InitEngine /\ [][NextEngine]_vars

\* ------------------------------------------------------------------------
\* The string and number conversions interactive_generation uses

\* Characters are those of Latin-1.
\* the characters int() and float() skip around a literal: tab, newline,
\* vertical tab, form feed, carriage return, space, next line (0x85),
\* no-break space (0xA0)
NumericWhitespace == {"\t", "\n", "", "\f", "\r", " ", "", " "}

\* the characters str.strip() removes: those and the separators 0x1C-0x1F
Whitespace == NumericWhitespace \cup {"", "", "", ""}

RECURSIVE TrimLeft(_, _)
TrimLeft(text, chars) ==
    IF text # <<>> /\ Head(text) \in chars THEN TrimLeft(Tail(text), chars)
    ELSE text

RECURSIVE TrimRight(_, _)
TrimRight(text, chars) ==
    IF text # <<>> /\ text[Len(text)] \in chars
    THEN TrimRight(SubSeq(text, 1, Len(text) - 1), chars)
    ELSE text

\* str.lstrip()
LStrip(text) == TrimLeft(text, Whitespace)

\* str.rstrip()
RStrip(text) == TrimRight(text, Whitespace)

\* str.strip()
Strip(text) == RStrip(LStrip(text))

\* the literal int() and float() parse: the text without the surrounding
\* whitespace they skip
NumericBody(text) ==
    TrimRight(TrimLeft(text, NumericWhitespace), NumericWhitespace)

\* the Latin-1 letters str.lower() changes, and what it makes of them
UpperChars ==
    << "A", "B", "C", "D", "E", "F", "G", "H", "I", "J", "K", "L", "M",
       "N", "O", "P", "Q", "R", "S", "T", "U", "V", "W", "X", "Y", "Z",
       "À", "Á", "Â", "Ã", "Ä", "Å", "Æ", "Ç", "È", "É", "Ê", "Ë", "Ì",
       "Í", "Î", "Ï", "Ð", "Ñ", "Ò", "Ó", "Ô", "Õ", "Ö", "Ø", "Ù", "Ú",
       "Û", "Ü", "Ý", "Þ" >>
LowerChars ==
    << "a", "b", "c", "d", "e", "f", "g", "h", "i", "j", "k", "l", "m",
       "n", "o", "p", "q", "r", "s", "t", "u", "v", "w", "x", "y", "z",
       "à", "á", "â", "ã", "ä", "å", "æ", "ç", "è", "é", "ê", "ë", "ì",
       "í", "î", "ï", "ð", "ñ", "ò", "ó", "ô", "õ", "ö", "ø", "ù", "ú",
       "û", "ü", "ý", "þ" >>

\* str.lower(), one character
LowerChar(c) ==
    IF \E n \in 1 .. Len(UpperChars) : UpperChars[n] = c
    THEN LowerChars[CHOOSE n \in 1 .. Len(UpperChars) : UpperChars[n] = c]
    ELSE c

\* str.lower()
Lower(text) == [n \in 1 .. Len(text) |-> LowerChar(text[n])]

DigitChars == <<"0", "1", "2", "3", "4", "5", "6", "7", "8", "9">>

IsDigit(c) == \E n \in 1 .. Len(DigitChars) : DigitChars[n] = c

DigitValue(c) == (CHOOSE n \in 1 .. Len(DigitChars) : DigitChars[n] = c) - 1

\* a digit part of a numeric literal: digits, single underscores between
\* two digits allowed
ValidDigits(text) ==
    /\ text # <<>>
    /\ \A n \in 1 .. Len(text) :
           \/ IsDigit(text[n])
           \/ /\ text[n] = "_"
              /\ 1 < n
              /\ n < Len(text)
              /\ IsDigit(text[n - 1])
              /\ IsDigit(text[n + 1])

DigitsOnly(text) == SelectSeq(text, IsDigit)

RECURSIVE DigitsValue(_)
DigitsValue(text) ==
    IF text = <<>> THEN 0
    ELSE 10 * DigitsValue(SubSeq(text, 1, Len(text) - 1))
             + DigitValue(text[Len(text)])

RECURSIVE Pow10(_)
Pow10(n) == IF n <= 0 THEN 1 ELSE 10 * Pow10(n - 1)

\* the text after an optional sign
Unsigned(text) ==
    IF text # <<>> /\ Head(text) \in {"+", "-"} THEN Tail(text) ELSE text

\* -1 for a leading minus sign, else 1
Sign(text) == IF text # <<>> /\ Head(text) = "-" THEN -1 ELSE 1

\* the mutant reads text that is no integer as 0
ParseIntLenient(text) ==
    LET body == NumericBody(text)
        digits == Unsigned(body)
    IN  IF ValidDigits(digits)
        THEN [ok |-> TRUE,
              value |-> Sign(body) * DigitsValue(DigitsOnly(digits))]
        ELSE [ok |-> TRUE, value |-> 0]

\* int(text): surrounding whitespace, an optional sign, decimal digits
\* with single underscores between them; ok = FALSE stands for ValueError
ParseInt(text) ==
    LET body == NumericBody(text)
        digits == Unsigned(body)
    IN  IF ValidDigits(digits)
        THEN [ok |-> TRUE,
              value |-> Sign(body) * DigitsValue(DigitsOnly(digits))]
        ELSE [ok |-> FALSE, value |-> 0]

\* position of the first character of text that is in the set, or
\* Len(text) + 1
FirstOf(text, chars) ==
    IF \E n \in 1 .. Len(text) : text[n] \in chars
    THEN CHOOSE n \in 1 .. Len(text) :
             text[n] \in chars /\ \A m \in 1 .. (n - 1) : text[m] \notin chars
    ELSE Len(text) + 1

\* float(text): surrounding whitespace, an optional sign, then inf,
\* infinity or nan in any letter case, or a decimal literal with an
\* optional point and exponent and at least one mantissa digit.  The value
\* is num/den: den = 0 for the infinities, 0/0 for nan.  ok = FALSE stands
\* for ValueError.
ParseFloat(text) ==
    LET body == NumericBody(text)
        literal == Unsigned(body)
        mantissa == SubSeq(literal, 1, FirstOf(literal, {"e", "E"}) - 1)
        exponent == SubSeq(literal, FirstOf(literal, {"e", "E"}) + 1,
                           Len(literal))
        has_exponent == FirstOf(literal, {"e", "E"}) <= Len(literal)
        whole == SubSeq(mantissa, 1, FirstOf(mantissa, {"."}) - 1)
        frac == SubSeq(mantissa, FirstOf(mantissa, {"."}) + 1, Len(mantissa))
        e == IF has_exponent
             THEN Sign(exponent) * DigitsValue(DigitsOnly(Unsigned(exponent)))
             ELSE 0
        n == Sign(body) * DigitsValue(DigitsOnly(whole \o frac))
        d == Pow10(Len(DigitsOnly(frac)))
    IN  IF Lower(literal) \in { <<"i", "n", "f">>,
                                <<"i", "n", "f", "i", "n", "i", "t", "y">> }
        THEN [ok |-> TRUE, num |-> Sign(body), den |-> 0]
        ELSE IF Lower(literal) = <<"n", "a", "n">>
        THEN [ok |-> TRUE, num |-> 0, den |-> 0]
        ELSE IF /\ whole = <<>> \/ ValidDigits(whole)
                /\ frac = <<>> \/ ValidDigits(frac)
                /\ whole # <<>> \/ frac # <<>>
                /\ has_exponent => ValidDigits(Unsigned(exponent))
        THEN [ok |-> TRUE,
              num |-> IF e >= 0 THEN n * Pow10(e) ELSE n,
              den |-> IF e >= 0 THEN d ELSE d * Pow10(-e)]
        ELSE [ok |-> FALSE, num |-> 0, den |-> 1]

\* input(..) or default
OrDefault(text, default) == IF text = <<>> THEN default ELSE text

\* the mutant compares without lower()
IsQuitCaseSensitive(text) == text = <<"q", "u", "i", "t">>

\* seed.lower() == 'quit' (line 147)
IsQuit(text) == Lower(text) = <<"q", "u", "i", "t">>

\* ------------------------------------------------------------------------
\* interactive_generation (lines 139-159)

\* what input(prompt) prints
Prompt == [kind |-> "prompt", text |-> <<>>]

\* the literals of lines 152 and 153
DefaultLengthText == <<"1", "5", "0">>
DefaultTemperatureText == <<"0", ".", "8">>

\* what the user may type at the three prompts
SeedEntries ==
    { <<>>, <<" ">>,
      <<"q", "u", "i", "t">>, <<"", "Q", "u", "I", "T", "">>,
      <<"q", "u", "i">>, <<" ", "i", "t", "">>, <<"#">> }

LengthEntries ==
    { <<>>, <<"1", ".", "5">>, <<"", "2">>, <<"", "1", " ">> }

TemperatureEntries ==
    { <<>>, <<"1", "">>, <<"0">>, <<"2", "e", "0", "">> }

\* seed = input(..).strip(), the sentinel test and the test of an empty
\* seed (lines 146-150)
ReadSeed ==
    /\ UNCHANGED model
    /\ pc = "seed_prompt"
    /\ \E e \in SeedEntries :
        /\ prompts' = <<[name |-> "seed", text |-> e]>>
        /\ seed' = Strip(e)
        /\ pc' = IF IsQuit(Strip(e)) THEN "done"
                 ELSE IF Strip(e) # <<>> THEN "length_prompt"
                 ELSE "seed_prompt"
    /\ invocations' = <<>>
    /\ stdout' = <<Prompt>>
    /\ UNCHANGED <<length_arg, epc, seed_phrase, length, temperature,
                   seed_indices, hidden_state, generated_text, current_input,
                   i, draws, prev, steps, result, outcome>>

\* length = int(input(..) or "150") (line 152); ValueError goes to the
\* except clause
ReadLength ==
    /\ UNCHANGED model
    /\ pc = "length_prompt"
    /\ \E e \in LengthEntries :
        /\ prompts' = Append(prompts, [name |-> "length", text |-> e])
        /\ LET parsed == ParseInt(OrDefault(e, DefaultLengthText))
           IN  IF parsed.ok
               THEN /\ length_arg' = parsed.value
                    /\ pc' = "temp_prompt"
                    /\ stdout' = Append(stdout, Prompt)
                    /\ UNCHANGED <<invocations, epc, seed_phrase, length,
                                   temperature, seed_indices, hidden_state,
                                   generated_text, current_input, i, draws,
                                   prev, steps, result, outcome>>
               ELSE /\ ExceptClause(Append(stdout, Prompt))
                    /\ UNCHANGED length_arg
    /\ UNCHANGED seed

\* temp = float(input(..) or "0.8") and the call of the try block
\* (lines 153-155); ValueError goes to the except clause
ReadTemperature ==
    /\ UNCHANGED model
    /\ pc = "temp_prompt"
    /\ \E e \in TemperatureEntries :
        /\ prompts' = Append(prompts, [name |-> "temperature", text |-> e])
        /\ LET parsed == ParseFloat(OrDefault(e, DefaultTemperatureText))
           IN  IF parsed.ok
               THEN Invoke([seed_phrase |-> seed, length |-> length_arg,
                            temperature |-> [num |-> parsed.num,
                                             den |-> parsed.den]],
                           "in_try", Append(stdout, Prompt))
               ELSE ExceptClause(Append(stdout, Prompt))
    /\ UNCHANGED <<seed, length_arg>>

\* The model a session is started with.  A call of the session is
\* explored with every draw of each of its iterations; with the flat
\* model the 150 characters of a default call are 3^150 texts, more than
\* can be enumerated, so that sessions are explored with the peaked model,
\* whose texts fork for as long as "i" is sampled.
SessionModels == {"peaked"}

Init ==
    /\ model \in SessionModels
    /\ pc = "seed_prompt"
    /\ InitSessionVars
    /\ InitEngineVars

Next ==
    \/ ReadSeed
    \/ ReadLength
    \/ ReadTemperature
    \/ WarmupStep
    \/ StartDecoding
    \/ DecodeStep
    \/ Return

Spec == Init /\ [][Next]_vars

\* ------------------------------------------------------------------------
\* Properties of generate_text_with_seed, checked under SpecEngine

IsPrefix(p, t) == Len(p) <= Len(t) /\ SubSeq(t, 1, Len(p)) = p

\* positions of the vocabulary-known characters of a phrase
KnownAt(phrase) == {n \in 1 .. Len(phrase) : phrase[n] \in KnownChars}

\* the id of the m-th vocabulary-known character of a phrase
KnownToken(phrase, m) ==
    LET n == CHOOSE q \in KnownAt(phrase) :
                 Cardinality({r \in KnownAt(phrase) : r <= q}) = m
    IN  character_to_num(phrase[n])

KnownCount(phrase) == Cardinality(KnownAt(phrase))

Returned == outcome \in {"ok", "empty_seed"}

ValidTemperature == temperature.num > 0

\* C1 as stated: for every request, whatever the seed, the returned text
\* starts with the original seed_phrase.
C1_EveryReturnStartsWithSeed == Returned => IsPrefix(seed_phrase, result)

\* C1, amended: in every call that does not end with the empty-seed error
\* the text starts with the original seed_phrase, character for character,
\* while it is built and when it is returned, whichever seed characters
\* were skipped during tokenization.
C1_SeedIsPrefix ==
    /\ epc \in {"warmup", "decode"} => IsPrefix(seed_phrase, generated_text)
    /\ outcome = "ok" => IsPrefix(seed_phrase, result)

C1_Witness ==
    /\ outcome = "ok"
    /\ KnownCount(seed_phrase) < Len(seed_phrase)
    /\ Len(result) > Len(seed_phrase)

\* decoding iterations recorded in steps: those that sampled an id
DecodeIterations == {n \in 1 .. Len(steps) : steps[n].sampled # None}

\* C2: for a valid request (a known seed character, length >= 0,
\* temperature > 0) the decoding loop runs exactly length times and appends
\* one character per iteration: len(result) - len(seed_phrase) = length,
\* and length 0 returns the seed unchanged.
C2_LengthExact ==
    /\ (epc = "decode" /\ ValidTemperature)
           => /\ Cardinality(DecodeIterations) = i
              /\ Len(generated_text) = Len(seed_phrase) + i
              /\ (length >= 0 => i <= length)
    /\ (outcome = "ok" /\ length >= 0 /\ ValidTemperature)
           => /\ Cardinality(DecodeIterations) = length
              /\ Len(result) - Len(seed_phrase) = length
              /\ (length = 0 => result = seed_phrase)

C2_Witness ==
    /\ outcome = "ok"
    /\ ValidTemperature
    /\ length = MaxLen
    /\ Len(result) = Len(seed_phrase) + MaxLen

SeedOrTextPrinted ==
    \E n \in 1 .. Len(stdout) : stdout[n].kind \in {"seed", "text", "char"}

\* C3: a call whose seed has a vocabulary-known character never ends with
\* the empty-seed error and, the temperature being valid, returns its text;
\* a call whose seed has none ends with the empty-seed error: the error is
\* printed, the model is never stepped, neither the seed nor a generated
\* character is printed and the caller receives the empty string.
C3_EmptySeed ==
    /\ epc # "idle" => KnownCount(seed_phrase) >= 1
    /\ (pc = "returned" /\ KnownCount(seed_phrase) >= 1)
           => /\ outcome # "empty_seed"
              /\ (ValidTemperature => outcome = "ok" /\ result # <<>>)
    /\ (pc = "returned" /\ KnownCount(seed_phrase) = 0)
           => /\ outcome = "empty_seed"
              /\ result = <<>>
              /\ steps = <<>>
              /\ ~SeedOrTextPrinted
              /\ stdout[Len(stdout)].kind = "error"

C3_Witness ==
    /\ pc = "returned"
    /\ outcome = "empty_seed"
    /\ seed_phrase # <<>>
    /\ hidden_state # None

\* the finished call repeated the request of the call before it and was
\* handed the same draws
SameCallAsBefore == prev # NoPrev /\ prev.draws = draws

\* C8: a call with the same seed, length and temperature as the call
\* before it that is given the same sequence of random draws ends the same
\* way and returns the same text, whatever state the earlier calls left
\* behind; while it runs on the draws of the call before, its text is a
\* prefix of the text that call returned.
C8_Deterministic ==
    /\ (pc = "returned" /\ SameCallAsBefore)
           => outcome = prev.outcome /\ result = prev.result
    /\ (epc = "decode" /\ prev # NoPrev /\ prev.outcome = "ok"
                       /\ IsPrefix(draws, prev.draws))
           => IsPrefix(generated_text, prev.result)

\* a repeated call was handed the draws of the call before it, not all of
\* them the same, and has returned that call's text; the call before had
\* left a recurrent state behind
C8_Witness ==
    /\ pc = "returned"
    /\ SameCallAsBefore
    /\ outcome = "ok"
    /\ Len(draws) >= 2
    /\ draws[1] # draws[2]
    /\ result = prev.result
    /\ KnownCount(seed_phrase) >= 2

\* number of warm-up steps of a call: one less than the known characters
WarmupLength == KnownCount(seed_phrase) - 1

\* C9: with k >= 1 known seed characters, the recurrent state of a call
\* starts as None; warm-up steps the model once for each of the first k-1
\* tokens, in seed order, each step receiving the state the previous step
\* returned, and samples nothing; the last token is left to decoding.  A
\* call that returns has made exactly (k-1) + length model steps
\* (length >= 0, temperature > 0).
C9_Warmup ==
    /\ epc = "warmup"
           => /\ Len(steps) = i
              /\ i <= WarmupLength
              /\ hidden_state = IF i = 0 THEN None ELSE steps[i].hidden_out
    /\ epc = "decode" => Len(steps) >= WarmupLength
    /\ (epc # "idle" \/ outcome \in {"ok", "raised"})
           => \A n \in 1 .. Len(steps) :
                  /\ n = 1 => steps[n].hidden_in = None
                  /\ n <= WarmupLength
                         => /\ steps[n].token = KnownToken(seed_phrase, n)
                            /\ steps[n].sampled = None
                            /\ n > 1 => steps[n].hidden_in
                                            = steps[n - 1].hidden_out
                  /\ (n > WarmupLength /\ ValidTemperature)
                         => steps[n].sampled # None
    /\ (outcome = "ok" /\ length >= 0 /\ ValidTemperature)
           => /\ Len(steps) = WarmupLength + length
              /\ Len(steps) >= 1 => steps[1].hidden_in = None

C9_Witness ==
    /\ outcome = "ok"
    /\ ValidTemperature
    /\ WarmupLength >= 2
    /\ KnownCount(seed_phrase) < Len(seed_phrase)
    /\ length >= 1
    /\ Len(steps) = WarmupLength + length

\* C10: the first decoding iteration feeds the last known seed token, every
\* later one the id sampled by the iteration before it; each decoding step
\* receives the recurrent state the preceding model step returned; the
\* character appended by an iteration is num_to_character of the id it
\* sampled.
C10_Feedback ==
    /\ epc = "decode"
           => /\ hidden_state = IF steps = <<>> THEN None
                                ELSE steps[Len(steps)].hidden_out
              /\ current_input =
                     IF i = 0
                     THEN KnownToken(seed_phrase, KnownCount(seed_phrase))
                     ELSE steps[Len(steps)].sampled
    /\ (epc = "decode" \/ outcome \in {"ok", "raised"})
           => \A n \in (WarmupLength + 1) .. Len(steps) :
                  /\ steps[n].token =
                         IF n = WarmupLength + 1
                         THEN KnownToken(seed_phrase, KnownCount(seed_phrase))
                         ELSE steps[n - 1].sampled
                  /\ steps[n].hidden_in =
                         IF n = 1 THEN None ELSE steps[n - 1].hidden_out
                  /\ steps[n].sampled # None
                         => generated_text[Len(seed_phrase) + n - WarmupLength]
                                = num_to_character(steps[n].sampled)

\* a call whose second decoding iteration was fed an id other than the
\* last seed token
C10_Witness ==
    /\ outcome = "ok"
    /\ WarmupLength >= 1
    /\ Len(steps) >= WarmupLength + 2
    /\ steps[WarmupLength + 2].token # steps[WarmupLength + 1].token
    /\ steps[WarmupLength + 2].token = steps[WarmupLength + 1].sampled

\* ------------------------------------------------------------------------
\* Properties of interactive_generation, checked under Spec

\* entries that are no integer literal, and entries that are no real literal
MalformedLengthEntries == { <<"1", ".", "5">>, <<"", "2">> }
MalformedTemperatureEntries == { <<"1", "">> }

\* the temperature a well-formed, non-empty entry denotes
EnteredTemperature(text) ==
    CASE text = <<"0">> -> [num |-> 0, den |-> 1]
      [] text = <<"2", "e", "0", "">> -> [num |-> 2, den |-> 1]

\* the length a well-formed, non-empty entry denotes
EnteredLength(text) ==
    CASE text = <<"", "1", " ">> -> 1

\* entries that are the sentinel
QuitEntries == { <<"q", "u", "i", "t">>, <<"", "Q", "u", "I", "T", "">> }

PromptNames == [n \in 1 .. Len(prompts) |-> prompts[n].name]

Defaults ==
    [seed_phrase |-> seed, length |-> 150,
     temperature |-> [num |-> 8, den |-> 10]]

NoticePrinted == \E n \in 1 .. Len(stdout) : stdout[n].kind = "notice"

\* the last prompt read in this iteration was `name`, answered by a text
\* of the set `texts`
LastEntryIn(name, texts) ==
    /\ prompts # <<>>
    /\ prompts[Len(prompts)].name = name
    /\ prompts[Len(prompts)].text \in texts

\* C4: when the length entry or the temperature entry does not parse, the
\* engine is invoked for that seed with length 150 and temperature 0.8, the
\* notice is printed and the session goes on; an empty entry gives the
\* default of its own field only, and any other entry the value entered.
C4_DefaultsOnMalformed ==
    /\ (\/ LastEntryIn("length", MalformedLengthEntries)
        \/ LastEntryIn("temperature", MalformedTemperatureEntries))
           => /\ invocations = <<Defaults>>
              /\ NoticePrinted
              /\ pc \in {"in_except", "seed_prompt"}
              /\ pc = "in_except" => length = 150 /\ temperature.num = 8
                                                  /\ temperature.den = 10
    /\ LastEntryIn("length", {<<>>})
           => pc = "temp_prompt" /\ length_arg = 150 /\ invocations = <<>>
    /\ LastEntryIn("temperature", {<<>>})
           => /\ invocations = << [seed_phrase |-> seed,
                                   length |-> length_arg,
                                   temperature |-> [num |-> 8, den |-> 10]] >>
              /\ ~NoticePrinted
    /\ LastEntryIn("length", LengthEntries
                                \ (MalformedLengthEntries \cup {<<>>}))
           => /\ pc = "temp_prompt"
              /\ length_arg = EnteredLength(prompts[2].text)
    /\ LastEntryIn("temperature", TemperatureEntries
                         \ (MalformedTemperatureEntries \cup {<<>>}))
           => invocations[1] =
                  [seed_phrase |-> seed, length |-> length_arg,
                   temperature |-> EnteredTemperature(prompts[3].text)]

\* a valid length other than the default was entered, then a malformed
\* temperature, and the call with the defaults has returned its text,
\* one of its last draws not being that of the most probable id
C4_Witness ==
    /\ LastEntryIn("temperature", MalformedTemperatureEntries)
    /\ length_arg \notin {0, 150}
    /\ prompts[2].text = <<"", "1", " ">>
    /\ pc = "seed_prompt"
    /\ outcome = "ok"
    /\ Len(result) = Len(seed_phrase) + 150
    /\ \E n \in 100 .. 150 : draws[n] # 0

\* a loop iteration with a seed other than the sentinel has run to its end
IterationOver == pc = "seed_prompt" /\ prompts # <<>>

\* C5 as stated: every loop iteration whose seed is not the sentinel
\* invokes the engine exactly once, never zero times (an empty seed
\* included) and never twice (a ValueError raised inside the first
\* invocation included).
C5_ExactlyOneInvocation ==
    /\ Len(invocations) <= 1
    /\ IterationOver => Len(invocations) = 1

\* C6: the session ends exactly when a seed entry is the sentinel ('quit'
\* after strip(), in any letter case), tested when the seed is read: every
\* other step, whatever was malformed or failed, leaves the session
\* running, and after the sentinel nothing is read and no call is made.
C6_QuitOnly ==
    [][ /\ pc # "done"
        /\ pc' # "failed"
        /\ (pc' = "done") <=> /\ pc = "seed_prompt"
                              /\ LastEntryIn("seed", QuitEntries)'
        /\ (pc' = "done") => invocations' = <<>> /\ Len(prompts') = 1
        /\ (Len(invocations') > Len(invocations) /\ outcome' = "empty_seed")
               => pc' = "seed_prompt" ]_vars

\* the session ended on a mixed-case, padded sentinel after an iteration
\* whose call failed with the empty-seed error
C6_Witness ==
    /\ pc = "done"
    /\ prompts[1].text = <<"", "Q", "u", "I", "T", "">>
    /\ outcome = "empty_seed"

\* C7 as stated: every engine invocation of a cycle comes after the three
\* prompts seed, length, temperature, also when the length was malformed.
C7_ThreePromptsBeforeCall ==
    invocations # <<>> => PromptNames = <<"seed", "length", "temperature">>

\* C7, amended: a cycle reads the prompts in the order seed, length,
\* temperature and invokes the engine after them, except that a malformed
\* length entry ends the prompting: the temperature prompt is read exactly
\* when the length entry parsed, and the engine is then invoked right after
\* the length prompt.  (An empty seed reads no further prompt.)
C7_PromptOrder ==
    /\ PromptNames \in { <<>>, <<"seed">>, <<"seed", "length">>,
                         <<"seed", "length", "temperature">> }
    /\ invocations # <<>> => Len(prompts) >= 2
    /\ Len(prompts) = 2
           => /\ prompts[2].text \in MalformedLengthEntries
                     <=> invocations # <<>>
              /\ prompts[2].text \notin MalformedLengthEntries
                     <=> pc = "temp_prompt"
    /\ Len(prompts) = 3
           => /\ prompts[2].text \notin MalformedLengthEntries
              /\ invocations # <<>>
    /\ Len(prompts) >= 2 => Strip(prompts[1].text) # <<>>
    /\ pc \in {"length_prompt", "temp_prompt"} => invocations = <<>>

C7_Witness ==
    /\ Len(prompts) = 2
    /\ prompts[2].text \in MalformedLengthEntries
    /\ Len(invocations) = 1
    /\ pc = "seed_prompt"
    /\ outcome = "ok"

====
